---- MODULE Spec2Model ----
(***************************************************************************)
(* Model of the itinerary generation pipeline of ai-trip-planner:          *)
(* generateItinerary (the orchestrator), attemptGeneration (one model      *)
(* call, JSON extraction, schema validation) and generateMockItinerary /   *)
(* generateMockDays / calculateDuration (the mock generator).              *)
(*                                                                         *)
(* Numbers: temperatures are in tenths (0.7 -> 7), confidence scores in    *)
(* hundredths (0.85 -> 85), dates are millisecond timestamps as returned   *)
(* by Date.getTime().  Strings that are only copied into templated text    *)
(* (origin, destination, currency, additional_info) are left out of the    *)
(* TripRequest record.                                                     *)
(***************************************************************************)
EXTENDS Integers, Sequences, FiniteSets, TLC

----------------------------------------------------------------------------
(* Bounds of the model                                                     *)

\* last calendar day (counted from the first day of the model) a date can name
MaxDay == 3
\* budgets 0..MaxBudget are enumerated, plus the sample budgets below
MaxBudget == 10

----------------------------------------------------------------------------
(* Dates                                                                   *)

\* 1000 * 60 * 60 * 24, the divisor of calculateDuration
MsPerDay == 1000 * 60 * 60 * 24
MsPerHour == 1000 * 60 * 60

\* A date string names a calendar day and, optionally, a time of day
\* ("2024-06-01" has h = 0, "2024-06-01T12:00:00Z" has h = 12).
DateStrings == [d : 0..MaxDay, h : {0, 12}]

\* new Date(s).getTime()
getTime(s) == s.d * MsPerDay + s.h * MsPerHour

\* date.toISOString().split("T")[0] : the calendar day of a timestamp
isoDay(ms) == ms \div MsPerDay

VARIABLE timeZone   \* the time zone of the process

\* A time zone: its standard offset from UTC in hours and, when it has
\* daylight saving time, the timestamp from which the offset is one hour more
UtcZone == [std |-> 0, dst |-> FALSE, dstFrom |-> 0]
TimeZones ==
  { UtcZone,
    [std |-> 0 - 5, dst |-> TRUE, dstFrom |-> MsPerDay + 7 * MsPerHour] }

\* the offset from UTC, in hours, at a timestamp
offsetAt(zone, ms) == IF zone.dst /\ ms >= zone.dstFrom THEN zone.std + 1 ELSE zone.std

\* const d = new Date(date); d.setDate(date.getDate() + i): the local
\* calendar day moves by i days, the local time of day is kept
setDate(zone, ms, i) ==
  LET wall == ms + offsetAt(zone, ms) * MsPerHour + i * MsPerDay
      inDst == wall - (zone.std + 1) * MsPerHour
  IN  IF zone.dst /\ inDst >= zone.dstFrom
      THEN inDst
      ELSE wall - zone.std * MsPerHour

Abs(x) == IF x < 0 THEN 0 - x ELSE x
Max(a, b) == IF a >= b THEN a ELSE b
\* Math.ceil(n / d) for d > 0
CeilDiv(n, d) == IF n % d = 0 THEN n \div d ELSE (n \div d) + 1

calculateDuration_noabs(startDate, endDate) ==
  Max(1, CeilDiv(getTime(endDate) - getTime(startDate), MsPerDay))

calculateDuration_inclusive(startDate, endDate) ==
  Max(1, CeilDiv(Abs(getTime(endDate) - getTime(startDate)), MsPerDay) + 1)

calculateDuration(startDate, endDate) ==
  LET start == getTime(startDate)
      end == getTime(endDate)
      diffTime == Abs(end - start)
      diffDays == CeilDiv(diffTime, MsPerDay)
  IN  Max(1, diffDays)

----------------------------------------------------------------------------
(* Trip requests                                                           *)

Themes == {<<>>, <<"heritage", "food">>}
Budgets == (0..MaxBudget) \cup {90, 100, 2000}

TripRequests ==
  [start_date : DateStrings, end_date : DateStrings, budget_total : Budgets,
   preferred_themes : Themes, num_travelers : {1, 2}]

\* the optional itineraryType argument; Undefined stands for an omitted argument
Undefined == "<undefined>"
TypeFilters == {Undefined, "", "budget", "balanced", "premium", "Budget"}
\* JavaScript truthiness of the itineraryType argument
Truthy(s) == s # Undefined /\ s # ""

----------------------------------------------------------------------------
(* Arithmetic of the mock generator                                        *)
(*                                                                         *)
(* The source multiplies an integer budget by the double literals 0.7,     *)
(* 0.9 and 1.2 and floors the product.  The literals are not exact:        *)
(*   0.7 and 1.2 are stored 0.4 * 2^-53 and 0.2 * 2^-52 below their        *)
(*   decimal value, 0.9 is stored above it.                                *)
(* A product b * 0.9 or b * 1.2 floors to the exact floor.  A product      *)
(* b * 0.7 whose exact value is an integer N rounds to N only when the     *)
(* error 0.4 * b * 2^-53 is at most half a unit in the last place below N, *)
(* that is when 4 * b <= 10 * P, P the largest power of two below N;       *)
(* otherwise the double is below N and floors to N - 1.                    *)

RECURSIVE PowerOfTwoBelowFrom(_, _)
PowerOfTwoBelowFrom(p, n) == IF 2 * p < n THEN PowerOfTwoBelowFrom(2 * p, n) ELSE p
\* the largest power of two strictly below n, for n >= 2
PowerOfTwoBelow(n) == PowerOfTwoBelowFrom(1, n)

\* Math.floor(b * 0.7)
FloorTimes07(b) ==
  LET N == (7 * b) \div 10
  IN  IF b > 0 /\ b % 10 = 0 /\ 4 * b > 10 * PowerOfTwoBelow(N)
      THEN N - 1
      ELSE N
\* Math.floor(b * 0.9)
FloorTimes09(b) == (9 * b) \div 10
\* Math.floor(b * 1.2)
FloorTimes12(b) == (12 * b) \div 10

\* Math.floor(b * m) for the multiplier m given in tenths
FloorTimes(b, tenths) ==
  CASE tenths = 7 -> FloorTimes07(b)
    [] tenths = 9 -> FloorTimes09(b)
    [] tenths = 12 -> FloorTimes12(b)

----------------------------------------------------------------------------
(* Mock generator                                                          *)

\* tripRequest.preferred_themes[0] || "cultural"
firstThemeOr(themes, default) == IF Len(themes) > 0 THEN themes[1] ELSE default

\* Math.floor(d * (share / 10000)) for the double d = b * (tenths / 10),
\* in exact arithmetic
FloorShare(dailyBudget, share) ==
  (dailyBudget[1] * dailyBudget[2] * share) \div 100000

\* The per-day budgets b <= 2000 for which the double product behind the
\* accommodation cost (dailyBudget * 0.3 or dailyBudget * 0.35) falls just
\* below its integer value, so that Math.floor returns one less
AccommodationRoundedBelow(dailyBudget) ==
  CASE dailyBudget[2] = 7 -> dailyBudget[1] \in {700, 1300, 1400}
    [] dailyBudget[2] = 9 -> dailyBudget[1] \in {200, 400, 800, 1600}
    [] dailyBudget[2] = 12 -> dailyBudget[1] \in {150, 300, 550, 600, 1100, 1150, 1200}

\* the same for the lunch cost dailyBudget * 0.08
LunchRoundedBelow(dailyBudget) == dailyBudget[2] = 7 /\ dailyBudget[1] = 1375

\* share of the daily budget spent on accommodation, in 1/10000:
\* type === "experience" ? 0.4 : type === "budget" ? 0.3 : 0.35
accommodationShare(type) ==
  IF type = "experience" THEN 4000 ELSE IF type = "budget" THEN 3000 ELSE 3500

\* activityCost = dailyBudget - accommodationCost - dailyBudget * 0.2, as a share
activityShare(type) == 10000 - accommodationShare(type) - 2000

\* share of the dinner: type === "experience" ? 0.15 : 0.07
dinnerShare(type) == IF type = "experience" THEN 1500 ELSE 700

\* The days of one mock itinerary.  dailyBudget is the pair <<b, tenths>>
\* standing for the double b * (tenths / 10) the caller passes.
generateMockDays(tripRequest, duration, dailyBudget, type) ==
  LET startDate == getTime(tripRequest.start_date)
      theme == firstThemeOr(tripRequest.preferred_themes, "cultural")
  IN  [i \in 1..duration |->
        [day |-> i,
         date |-> isoDay(setDate(timeZone, startDate, i - 1)),
         activities |->
           << [name |-> "city_center", type |-> "sightseeing",
               cost |-> FloorShare(dailyBudget, (activityShare(type) * 6) \div 10)],
              [name |-> theme, type |-> theme,
               cost |-> FloorShare(dailyBudget, (activityShare(type) * 4) \div 10)] >>,
         accommodation |->
           [cost |-> FloorShare(dailyBudget, accommodationShare(type))
                     - (IF AccommodationRoundedBelow(dailyBudget) THEN 1 ELSE 0)],
         meals |->
           << [type |-> "breakfast", cost |-> FloorShare(dailyBudget, 500)],
              [type |-> "lunch",
               cost |-> FloorShare(dailyBudget, 800)
                        - (IF LunchRoundedBelow(dailyBudget) THEN 1 ELSE 0)],
              [type |-> "dinner", cost |-> FloorShare(dailyBudget, dinnerShare(type))] >>,
         transportation |-> [cost |-> FloorShare(dailyBudget, 500)],
         daily_cost |-> FloorTimes(dailyBudget[1], dailyBudget[2])]]

\* the allItineraries literal: balanced, budget, premium in this order
allItineraries(tripRequest) ==
  LET duration == calculateDuration(tripRequest.start_date, tripRequest.end_date)
      dailyBudget == tripRequest.budget_total \div duration
  IN  << [type |-> "balanced",
          total_cost |-> FloorTimes09(tripRequest.budget_total),
          days |-> generateMockDays(tripRequest, duration, <<dailyBudget, 9>>, "balanced")],
         [type |-> "budget",
          total_cost |-> FloorTimes07(tripRequest.budget_total),
          days |-> generateMockDays(tripRequest, duration, <<dailyBudget, 7>>, "budget")],
         [type |-> "premium",
          total_cost |-> FloorTimes12(tripRequest.budget_total),
          days |-> generateMockDays(tripRequest, duration, <<dailyBudget, 12>>, "premium")] >>

\* allItineraries.filter(itinerary => itinerary.type === t)
filterByType(itineraries, t) ==
  LET Test(it) == it.type = t
  IN  SelectSeq(itineraries, Test)

selectItineraries_nofallback(itineraries, itineraryType) ==
  IF Truthy(itineraryType) THEN filterByType(itineraries, itineraryType) ELSE itineraries

selectItineraries_unfiltered(itineraries, itineraryType) == itineraries

\* the "Filter based on requested type" block
selectItineraries(itineraries, itineraryType) ==
  IF Truthy(itineraryType)
  THEN LET selected == filterByType(itineraries, itineraryType)
       IN  IF Len(selected) = 0
           THEN filterByType(itineraries, "balanced")
           ELSE selected
  ELSE itineraries

generateMockItinerary(tripRequest, itineraryType) ==
  [success |-> TRUE,
   data |->
     [itineraries |-> selectItineraries(allItineraries(tripRequest), itineraryType),
      metadata |->
        [confidence_score |-> 75,
         model_version |-> "mock-generator-v1",
         itinerary_type |-> IF Truthy(itineraryType) THEN itineraryType ELSE "all_types"]]]

----------------------------------------------------------------------------
(* The environment: credential and model responses                         *)

\* process.env.GEMINI_API_KEY: unset, or a string of characters
KeyValues ==
  { <<>>,
    <<"A", "I", "z", "a">>,
    <<"A", "I", "z", "a", "S", "y">>,
    <<"s", "k", "-", "1", "2">>,
    <<"a", "i", "z", "a", "S", "y">> }
ApiKeys == {[set |-> FALSE, value |-> <<>>]} \cup {[set |-> TRUE, value |-> v] : v \in KeyValues}

\* s.startsWith(prefix)
startsWith(s, prefix) == Len(s) >= Len(prefix) /\ SubSeq(s, 1, Len(prefix)) = prefix

hasValidKey_nonempty(key) == key.set /\ key.value # <<>>

\* negation of the guard
\*   !process.env.GEMINI_API_KEY || !process.env.GEMINI_API_KEY.startsWith('AIza')
hasValidKey(key) ==
  /\ key.set
  /\ key.value # <<>>
  /\ startsWith(key.value, <<"A", "I", "z", "a">>)

\* confidence_score of the model's own metadata: absent, or a score in hundredths
NoConfidence == 0 - 1

\* The JSON values a model response can carry.  hasItineraries tells whether
\* the top-level value is an object with an itineraries list; complete tells
\* whether an itinerary carries every field the schema requires.
ItineraryLists ==
  { <<>>,
    << [type |-> "budget", complete |-> TRUE] >>,
    << [type |-> "premium", complete |-> TRUE] >>,
    << [type |-> "premium", complete |-> FALSE] >>,
    << [type |-> "budget", complete |-> TRUE],
       [type |-> "balanced", complete |-> TRUE],
       [type |-> "premium", complete |-> TRUE] >> }
Payloads ==
  {[hasItineraries |-> FALSE, itineraries |-> <<>>, confidence_score |-> NoConfidence]}
  \cup [hasItineraries : {TRUE}, itineraries : ItineraryLists,
        confidence_score : {NoConfidence, 0, 90}]

\* The text of a model response, by how JSON can be found in it:
\*   json    the whole text is JSON
\*   fenced  a ```json ... ``` block inside other text
\*   braces  a { ... } substring inside other text, no fenced block
\*   prose   neither
\* parses tells whether the whole text (json) or the extracted substring
\* (fenced, braces) is accepted by JSON.parse; payload is the parsed value.
TextResponses ==
  [kind : {"text"}, layout : {"json"}, parses : {TRUE}, payload : Payloads]
  \cup [kind : {"text"}, layout : {"fenced", "braces"}, parses : {TRUE}, payload : Payloads]
  \cup [kind : {"text"}, layout : {"fenced", "braces", "prose"}, parses : {FALSE},
        payload : {[hasItineraries |-> FALSE, itineraries |-> <<>>,
                    confidence_score |-> NoConfidence]}]

\* model.generateContent rejects, with an Error or with another thrown value
ThrowResponses ==
  { [kind |-> "throw", isError |-> TRUE, message |-> "fetch failed"],
    [kind |-> "throw", isError |-> FALSE, message |-> "quota"] }

ModelResponses == TextResponses \cup ThrowResponses

----------------------------------------------------------------------------
(* Collaborators that are imported by the orchestrator                     *)

\* validateItinerarySchema(parsedResponse): structural check of the parsed value
validateItinerarySchema(parsed) ==
  LET ok == /\ parsed.hasItineraries
            /\ \A i \in 1..Len(parsed.itineraries) : parsed.itineraries[i].complete
  IN  [success |-> ok,
       errors |-> IF ok THEN <<>>
                  ELSE IF ~parsed.hasItineraries THEN <<"itineraries">>
                  ELSE <<"itineraries[].required">>]

\* buildCanonicalPrompt(tripRequest, itineraryType): a deterministic function
\* of its two arguments
buildCanonicalPrompt(tripRequest, itineraryType) ==
  <<"canonical", tripRequest, itineraryType>>

----------------------------------------------------------------------------
(* attemptGeneration                                                       *)

\* temperature of the first attempt, 0.7
FirstTemperature == 7
\* temperature of the retry, 0.3
RetryTemperature == 3

\* the request handed to model.generateContent
generationRequest(prompt, temperature) ==
  [prompt |-> prompt, temperature |-> temperature]

\* text.match(/```json\n([\s\S]*?)\n```/) || text.match(/\{[\s\S]*\}/)
jsonMatch_always(text) == TRUE

jsonMatch(text) == text.layout \in {"fenced", "braces"}

attemptOutcome_noDetails(response) ==
  IF response.kind = "throw"
  THEN [success |-> FALSE,
        error |-> IF response.isError THEN response.message ELSE "Generation failed"]
  ELSE IF response.layout # "json" /\ ~jsonMatch(response)
  THEN [success |-> FALSE, error |-> "No valid JSON found in AI response"]
  ELSE IF response.layout # "json" /\ ~response.parses
  THEN [success |-> FALSE, error |-> "Failed to parse JSON response"]
  ELSE LET validation == validateItinerarySchema(response.payload)
       IN  IF ~validation.success
           THEN [success |-> FALSE, error |-> "schema_validation_failed"]
           ELSE [success |-> TRUE, data |-> response.payload]

\* what attemptGeneration returns once the model call has settled
attemptOutcome(response) ==
  IF response.kind = "throw"
  THEN [success |-> FALSE,
        error |-> IF response.isError THEN response.message ELSE "Generation failed"]
  ELSE IF response.layout # "json" /\ ~jsonMatch(response)
  THEN [success |-> FALSE, error |-> "No valid JSON found in AI response"]
  ELSE IF response.layout # "json" /\ ~response.parses
  THEN [success |-> FALSE, error |-> "Failed to parse JSON response"]
  ELSE LET validation == validateItinerarySchema(response.payload)
       IN  IF ~validation.success
           THEN [success |-> FALSE, error |-> "schema_validation_failed",
                 details |-> validation.errors]
           ELSE [success |-> TRUE, data |-> response.payload]

----------------------------------------------------------------------------
(* generateItinerary                                                       *)

VARIABLES
  apiKey,         \* process.env.GEMINI_API_KEY
  pc,             \* position of the invocation in generateItinerary
  tripRequest,    \* argument tripRequest
  itineraryType,  \* argument itineraryType
  prompt,         \* const prompt
  modelCalls,     \* requests handed to model.generateContent, in order
  responses,      \* how each of these calls settled, in order
  inflight,       \* model calls issued and not yet settled
  result,         \* let result
  caught,         \* whether the catch block of generateItinerary was entered
  outcome,        \* "pending", "returned" or "threw" (promise rejected)
  ret,            \* the value the promise resolved with
  mockTrips,        \* the Map the trips route registers as globalThis.mockTrips
  mockItineraries,  \* the Map the typed-itinerary route holds as mockItineraries
  binding,          \* for each route module, what its const mockTrips is bound to
  requests,         \* the requests received, each with its position and response
  clock,            \* Date.now()
  privateItineraries,  \* the Map of the /api/v1/itineraries/generate route
  cards             \* the option cards ItineraryResults has rendered

\* the state of one invocation of generateItinerary
orchestratorVars == <<apiKey, timeZone, pc, tripRequest, itineraryType, prompt, modelCalls,
                      responses, inflight, result, caught, outcome, ret>>

\* the state of the route modules
routeVars == <<mockTrips, mockItineraries, binding, requests, clock,
               privateItineraries, cards>>

vars == <<orchestratorVars, routeVars>>

\* values of the locals before they are assigned
NullRequest ==
  [start_date |-> [d |-> 0, h |-> 0], end_date |-> [d |-> 0, h |-> 0],
   budget_total |-> 0, preferred_themes |-> <<>>, num_travelers |-> 1]
NoResult == [success |-> FALSE, error |-> "<unassigned>"]
NoReturn == [success |-> FALSE, error |-> "<pending>"]

\* the trip requests the orchestrator is invoked with
OrchestratorTripRequests ==
  {tr \in TripRequests :
     /\ tr.start_date = [d |-> 0, h |-> 0]
     /\ tr.end_date \in {[d |-> 0, h |-> 0], [d |-> MaxDay, h |-> 0]}
     /\ tr.budget_total \in {90, 2000}
     /\ tr.preferred_themes # <<>>
     /\ tr.num_travelers = 2}

\* The route modules: /api/v1/trips, /api/v1/trips/[tripId] and
\* /api/v1/trips/[tripId]/itineraries/[itineraryType]
RouteModules == {"trips", "tripById", "typedItinerary"}

\* new Map()
EmptyMap == [k \in {} |-> k]

\* map.set(key, value)
mapSet(map, key, value) ==
  [k \in DOMAIN map \cup {key} |-> IF k = key THEN value ELSE map[k]]

\* map.delete(key)
mapDelete(map, key) == [k \in DOMAIN map \ {key} |-> map[k]]

\* const tripId = `trip_${Date.now()}_${Math.random().toString(36).substr(2, 9)}`
\* the random suffix is taken to differ from call to call
newTripId(now, random) == <<"trip", now, random>>

\* const tripData = { id, tripRequest, createdAt, status: 'created' }
newTripData(tripId, request, now) ==
  [id |-> tripId, tripRequest |-> request, createdAt |-> now, status |-> "created"]

\* ItineraryResults has rendered nothing
NoCards == <<>>

\* no route module is loaded and no request was received
RouteFresh ==
  /\ mockTrips = EmptyMap
  /\ mockItineraries = EmptyMap
  /\ binding = [m \in RouteModules |-> "unloaded"]
  /\ requests = <<>>
  /\ clock = 0
  /\ privateItineraries = EmptyMap
  /\ cards = NoCards

\* the trips route is loaded and holds one trip
RouteWithTrip(request) ==
  /\ mockTrips = mapSet(EmptyMap, newTripId(0, 1), newTripData(newTripId(0, 1), request, 0))
  /\ mockItineraries = EmptyMap
  /\ binding = [m \in RouteModules |-> IF m = "trips" THEN "global" ELSE "unloaded"]
  /\ requests = <<>>
  /\ clock = 0
  /\ privateItineraries = EmptyMap
  /\ cards = NoCards

Idle ==
  /\ pc = "idle"
  /\ tripRequest = NullRequest
  /\ itineraryType = Undefined
  /\ prompt = <<>>
  /\ modelCalls = <<>>
  /\ responses = <<>>
  /\ inflight = 0
  /\ result = NoResult
  /\ caught = FALSE
  /\ outcome = "pending"
  /\ ret = NoReturn

Init ==
  /\ timeZone = UtcZone
  /\ apiKey \in ApiKeys
  /\ Idle
  /\ \/ RouteFresh
     \/ \E tr \in OrchestratorTripRequests : 
          /\ tr.budget_total = 90
          /\ tr.end_date = tr.start_date
          /\ RouteWithTrip(tr)

\* a caller invokes generateItinerary(tripRequest, itineraryType)
Invoke ==
  /\ pc = "idle"
  /\ \E tr \in OrchestratorTripRequests, ty \in TypeFilters :
       /\ tripRequest' = tr
       /\ itineraryType' = ty
  /\ pc' = "check_key"
  /\ UNCHANGED <<apiKey, timeZone, prompt, modelCalls, responses, inflight, result,
                 caught, outcome, ret>>
  /\ UNCHANGED routeVars

\* the credential guard fails: return generateMockItinerary(...)
KeyInvalidFallback ==
  /\ pc = "check_key"
  /\ ~hasValidKey(apiKey)
  /\ ret' = generateMockItinerary(tripRequest, itineraryType)
  /\ outcome' = "returned"
  /\ pc' = "done"
  /\ UNCHANGED <<apiKey, timeZone, tripRequest, itineraryType, prompt, modelCalls,
                 responses, inflight, result, caught>>
  /\ UNCHANGED routeVars

KeyValid ==
  /\ pc = "check_key"
  /\ hasValidKey(apiKey)
  /\ pc' = "init_model"
  /\ UNCHANGED <<apiKey, timeZone, tripRequest, itineraryType, prompt, modelCalls,
                 responses, inflight, result, caught, outcome, ret>>
  /\ UNCHANGED routeVars

\* genAI.getGenerativeModel(...)
InitModel ==
  /\ pc = "init_model"
  /\ pc' = "build_prompt"
  /\ UNCHANGED <<apiKey, timeZone, tripRequest, itineraryType, prompt, modelCalls,
                 responses, inflight, result, caught, outcome, ret>>
  /\ UNCHANGED routeVars

\* const prompt = buildCanonicalPrompt(tripRequest, itineraryType)
BuildPrompt ==
  /\ pc = "build_prompt"
  /\ prompt' = buildCanonicalPrompt(tripRequest, itineraryType)
  /\ pc' = "attempt1"
  /\ UNCHANGED <<apiKey, timeZone, tripRequest, itineraryType, modelCalls, responses,
                 inflight, result, caught, outcome, ret>>
  /\ UNCHANGED routeVars

\* a call made inside the try block throws: model initialisation, prompt
\* building, or the assembly of the metadata (uuidv4, Date)
ThrowInTry ==
  /\ pc \in {"init_model", "build_prompt", "metadata"}
  /\ caught' = TRUE
  /\ pc' = "catch"
  /\ UNCHANGED <<apiKey, timeZone, tripRequest, itineraryType, prompt, modelCalls,
                 responses, inflight, result, outcome, ret>>
  /\ UNCHANGED routeVars

\* attemptGeneration(model, prompt, 0.7) up to its await of generateContent
FirstAttemptCall ==
  /\ pc = "attempt1"
  /\ modelCalls' = Append(modelCalls, generationRequest(prompt, FirstTemperature))
  /\ inflight' = inflight + 1
  /\ pc' = "await1"
  /\ UNCHANGED <<apiKey, timeZone, tripRequest, itineraryType, prompt, responses,
                 result, caught, outcome, ret>>
  /\ UNCHANGED routeVars

\* the first model call settles; result = the value attemptGeneration returns
FirstAttemptSettles ==
  /\ pc = "await1"
  /\ \E r \in ModelResponses :
       /\ responses' = Append(responses, r)
       /\ result' = attemptOutcome(r)
  /\ inflight' = inflight - 1
  /\ pc' = "after1"
  /\ UNCHANGED <<apiKey, timeZone, tripRequest, itineraryType, prompt, modelCalls,
                 caught, outcome, ret>>
  /\ UNCHANGED routeVars

shouldRetry_anyFailure(r) == ~r.success

\* !result.success && result.error === "schema_validation_failed"
shouldRetry(r) == ~r.success /\ r.error = "schema_validation_failed"

fixupPrompt_unchanged(p) == p

\* `${prompt}\n\nIMPORTANT: The previous response had schema validation errors...`
fixupPrompt(p) == Append(p, "IMPORTANT: fix schema validation errors")

\* attemptGeneration(model, fixupPrompt, 0.3) up to its await of generateContent
RetryCall ==
  /\ pc = "after1"
  /\ shouldRetry(result)
  /\ modelCalls' = Append(modelCalls, generationRequest(fixupPrompt(prompt), RetryTemperature))
  /\ inflight' = inflight + 1
  /\ pc' = "await2"
  /\ UNCHANGED <<apiKey, timeZone, tripRequest, itineraryType, prompt, responses,
                 result, caught, outcome, ret>>
  /\ UNCHANGED routeVars

\* the retry block is skipped
NoRetry ==
  /\ pc = "after1"
  /\ ~shouldRetry(result)
  /\ pc' = "final"
  /\ UNCHANGED <<apiKey, timeZone, tripRequest, itineraryType, prompt, modelCalls,
                 responses, inflight, result, caught, outcome, ret>>
  /\ UNCHANGED routeVars

RetrySettles_retryAgain ==
  /\ pc = "await2"
  /\ \E r \in ModelResponses :
       /\ responses' = Append(responses, r)
       /\ result' = attemptOutcome(r)
  /\ inflight' = inflight - 1
  /\ pc' = "after1"
  /\ UNCHANGED <<apiKey, timeZone, tripRequest, itineraryType, prompt, modelCalls,
                 caught, outcome, ret>>
  /\ UNCHANGED routeVars

\* the second model call settles
RetrySettles ==
  /\ pc = "await2"
  /\ \E r \in ModelResponses :
       /\ responses' = Append(responses, r)
       /\ result' = attemptOutcome(r)
  /\ inflight' = inflight - 1
  /\ pc' = "final"
  /\ UNCHANGED <<apiKey, timeZone, tripRequest, itineraryType, prompt, modelCalls,
                 caught, outcome, ret>>
  /\ UNCHANGED routeVars

FailureFallback_propagate ==
  /\ pc = "final"
  /\ ~result.success
  /\ ret' = result
  /\ outcome' = "returned"
  /\ pc' = "done"
  /\ UNCHANGED <<apiKey, timeZone, tripRequest, itineraryType, prompt, modelCalls,
                 responses, inflight, result, caught>>
  /\ UNCHANGED routeVars

\* if (!result.success) return generateMockItinerary(...)
FailureFallback ==
  /\ pc = "final"
  /\ ~result.success
  /\ ret' = generateMockItinerary(tripRequest, itineraryType)
  /\ outcome' = "returned"
  /\ pc' = "done"
  /\ UNCHANGED <<apiKey, timeZone, tripRequest, itineraryType, prompt, modelCalls,
                 responses, inflight, result, caught>>
  /\ UNCHANGED routeVars

AttemptSucceeded ==
  /\ pc = "final"
  /\ result.success
  /\ pc' = "metadata"
  /\ UNCHANGED <<apiKey, timeZone, tripRequest, itineraryType, prompt, modelCalls,
                 responses, inflight, result, caught, outcome, ret>>
  /\ UNCHANGED routeVars

\* result.data.metadata?.confidence_score || 0.85
confidenceOrDefault(score) == IF score = NoConfidence \/ score = 0 THEN 85 ELSE score

\* { ...result.data, metadata: { ...result.data.metadata, ... } }
itineraryWithMetadata(data) ==
  [itineraries |-> data.itineraries,
   metadata |->
     [model_version |-> "gemini-1.5-pro",
      confidence_score |-> confidenceOrDefault(data.confidence_score),
      api_source |-> "gemini-api"]]

ReturnWithMetadata_caching ==
  /\ pc = "metadata"
  /\ ret' = [success |-> TRUE, data |-> itineraryWithMetadata(result.data)]
  /\ outcome' = "returned"
  /\ pc' = "done"
  /\ mockItineraries' = mapSet(mockItineraries, <<tripRequest, itineraryType>>, ret')
  /\ UNCHANGED <<apiKey, timeZone, tripRequest, itineraryType, prompt, modelCalls,
                 responses, inflight, result, caught>>
  /\ UNCHANGED <<mockTrips, binding, requests, clock, privateItineraries, cards>>

\* return { success: true, data: itineraryWithMetadata }
ReturnWithMetadata ==
  /\ pc = "metadata"
  /\ ret' = [success |-> TRUE, data |-> itineraryWithMetadata(result.data)]
  /\ outcome' = "returned"
  /\ pc' = "done"
  /\ UNCHANGED <<apiKey, timeZone, tripRequest, itineraryType, prompt, modelCalls,
                 responses, inflight, result, caught>>
  /\ UNCHANGED routeVars

CatchFallback_rethrow ==
  /\ pc = "catch"
  /\ outcome' = "threw"
  /\ pc' = "done"
  /\ UNCHANGED <<apiKey, timeZone, tripRequest, itineraryType, prompt, modelCalls,
                 responses, inflight, result, caught, ret>>
  /\ UNCHANGED routeVars

\* catch (error) { ...; return generateMockItinerary(...) }
CatchFallback ==
  /\ pc = "catch"
  /\ ret' = generateMockItinerary(tripRequest, itineraryType)
  /\ outcome' = "returned"
  /\ pc' = "done"
  /\ UNCHANGED <<apiKey, timeZone, tripRequest, itineraryType, prompt, modelCalls,
                 responses, inflight, result, caught>>
  /\ UNCHANGED routeVars

\* the invocation is over; the next one starts from fresh locals
Finish ==
  /\ pc = "done"
  /\ pc' = "idle"
  /\ tripRequest' = NullRequest
  /\ itineraryType' = Undefined
  /\ prompt' = <<>>
  /\ modelCalls' = <<>>
  /\ responses' = <<>>
  /\ inflight' = 0
  /\ result' = NoResult
  /\ caught' = FALSE
  /\ outcome' = "pending"
  /\ ret' = NoReturn
  /\ UNCHANGED <<apiKey, timeZone>>
  /\ UNCHANGED routeVars

Next ==
  \/ Invoke
  \/ KeyInvalidFallback
  \/ KeyValid
  \/ InitModel
  \/ BuildPrompt
  \/ ThrowInTry
  \/ FirstAttemptCall
  \/ FirstAttemptSettles
  \/ RetryCall
  \/ NoRetry
  \/ RetrySettles
  \/ FailureFallback
  \/ AttemptSucceeded
  \/ ReturnWithMetadata
  \/ CatchFallback
  \/ Finish

Spec == Init /\ [][Next]_vars

\* the steps generateItinerary takes by itself, from one await to the next
Run ==
  \/ KeyInvalidFallback
  \/ KeyValid
  \/ InitModel
  \/ BuildPrompt
  \/ ThrowInTry
  \/ FirstAttemptCall
  \/ RetryCall
  \/ NoRetry
  \/ FailureFallback
  \/ AttemptSucceeded
  \/ ReturnWithMetadata
  \/ CatchFallback
  \/ Finish

\* the key is unset, or set to one that is accepted
LiveInit ==
  /\ timeZone = UtcZone
  /\ apiKey \in {[set |-> FALSE, value |-> <<>>],
                 [set |-> TRUE, value |-> <<"A", "I", "z", "a", "S", "y">>]}
  /\ Idle
  /\ RouteFresh

\* generateItinerary under the scheduling of the event loop: a continuation
\* that can run does run, and every call of model.generateContent settles
LiveSpec ==
  /\ LiveInit
  /\ [][Next]_vars
  /\ WF_vars(Run)
  /\ WF_vars(FirstAttemptSettles)
  /\ WF_vars(RetrySettles)

----------------------------------------------------------------------------
(* The mock generator on its own, over every trip request and type filter  *)

MockInit ==
  /\ timeZone \in TimeZones
  /\ apiKey = [set |-> FALSE, value |-> <<>>]
  /\ Idle
  /\ RouteFresh

\* generateMockItinerary(tripRequest, itineraryType) is called and returns
MockGenerate ==
  /\ pc = "idle"
  /\ \E tr \in TripRequests, ty \in TypeFilters :
       /\ tripRequest' = tr
       /\ itineraryType' = ty
       /\ ret' = generateMockItinerary(tr, ty)
  /\ outcome' = "returned"
  /\ pc' = "done"
  /\ UNCHANGED <<apiKey, timeZone, prompt, modelCalls, responses, inflight, result, caught>>
  /\ UNCHANGED routeVars

MockNext == MockGenerate \/ Finish

MockSpec == MockInit /\ [][MockNext]_vars

----------------------------------------------------------------------------
(* Vocabulary of the properties                                            *)

Returned == outcome = "returned"

\* the set of type values of a list of itineraries
TypesOf(itineraries) == {itineraries[i].type : i \in 1..Len(itineraries)}

ItineraryTypes == {"budget", "balanced", "premium"}

\* the result was built by the mock generator
IsMockResult(r) ==
  /\ r.success
  /\ r.data.metadata.model_version = "mock-generator-v1"

\* GEMINI_API_KEY is unset, empty, or does not start with AIza
KeyRejected ==
  \/ ~apiKey.set
  \/ apiKey.value = <<>>
  \/ ~startsWith(apiKey.value, <<"A", "I", "z", "a">>)

\* the response carried JSON that was parsed and then rejected by the schema
SchemaRejected(r) ==
  /\ r.kind = "text"
  /\ (r.layout = "json" \/ (r.layout \in {"fenced", "braces"} /\ r.parses))
  /\ ~validateItinerarySchema(r.payload).success

\* the response carried JSON that was parsed and accepted by the schema
SchemaAccepted(r) ==
  /\ r.kind = "text"
  /\ (r.layout = "json" \/ (r.layout \in {"fenced", "braces"} /\ r.parses))
  /\ validateItinerarySchema(r.payload).success

----------------------------------------------------------------------------
(* Properties of generateItinerary                                         *)

\* C1: every result generateItinerary returns has success = true, whichever
\* path produced it (credential rejected, first attempt succeeded, retry
\* succeeded or failed, any other failure, exception inside the orchestrator).
C1_AlwaysSuccess == Returned => ret.success = TRUE

\* a result returned after the first attempt failed validation and the retry failed too
C1_Witness == Returned /\ Len(responses) = 2 /\ ~result.success

\* C2: for every path through generateItinerary the returned list of
\* itineraries is non-empty, every type is budget, balanced or premium, and
\* the types are exactly the requested type when a filter is given and all
\* three when none is given.
C2_TypesMatchFilter ==
  (Returned /\ ret.success /\ itineraryType \in ItineraryTypes \cup {Undefined}) =>
    /\ Len(ret.data.itineraries) > 0
    /\ TypesOf(ret.data.itineraries) \subseteq ItineraryTypes
    /\ TypesOf(ret.data.itineraries) =
         (IF itineraryType = Undefined THEN ItineraryTypes ELSE {itineraryType})

\* C3: one invocation makes at most two model calls, never two at a time, and
\* the second call is made only when the first attempt's JSON was rejected by
\* the schema; after any other first-attempt failure no further call is made.
C3_AtMostTwoSequentialCalls ==
  /\ Len(modelCalls) <= 2
  /\ inflight <= 1
  /\ Len(modelCalls) = Len(responses) + inflight
  /\ Len(modelCalls) = 2 => SchemaRejected(responses[1])
  /\ (Returned /\ Len(responses) >= 1 /\ ~SchemaRejected(responses[1])) =>
       Len(modelCalls) = 1

\* an invocation that returned after two model calls
C3_Witness == Returned /\ Len(modelCalls) = 2 /\ Len(responses) = 2

\* C4: when the first response fails schema validation and the second one
\* passes it, exactly two calls were made, the first at temperature 0.7 with
\* the original prompt, the second at 0.3 with the original prompt followed by
\* a corrective instruction, and the returned data is the second response's
\* parsed value with the orchestrator's metadata, not a mock itinerary.
C4_RetryPolicy ==
  (/\ Returned
   /\ ~caught
   /\ Len(responses) = 2
   /\ SchemaRejected(responses[1])
   /\ SchemaAccepted(responses[2])) =>
    LET original == buildCanonicalPrompt(tripRequest, itineraryType)
    IN  /\ Len(modelCalls) = 2
        /\ modelCalls[1].temperature = 7
        /\ modelCalls[1].prompt = original
        /\ modelCalls[2].temperature = 3
        /\ Len(modelCalls[2].prompt) = Len(original) + 1
        /\ SubSeq(modelCalls[2].prompt, 1, Len(original)) = original
        /\ ret.success
        /\ ret.data.itineraries = responses[2].payload.itineraries
        /\ ret.data.metadata.api_source = "gemini-api"
        /\ ret.data.metadata.model_version = "gemini-1.5-pro"

\* the retry's response passed validation and its data was returned
C4_Witness ==
  /\ Returned
  /\ ~caught
  /\ Len(responses) = 2
  /\ SchemaRejected(responses[1])
  /\ SchemaAccepted(responses[2])
  /\ responses[2].payload.itineraries # <<>>

\* C5: with GEMINI_API_KEY unset, empty or not starting with AIza,
\* generateItinerary makes no model call and returns the mock generator's
\* result.
C5_NoCredentialNoCalls ==
  KeyRejected =>
    /\ modelCalls = <<>>
    /\ Returned => ret = generateMockItinerary(tripRequest, itineraryType)

\* a result returned under a key that is set but does not start with AIza
C5_Witness ==
  /\ Returned
  /\ apiKey.set
  /\ apiKey.value # <<>>
  /\ KeyRejected
  /\ IsMockResult(ret)

\* C6: when every model call throws, generateItinerary returns success = true
\* and the returned metadata has api_source equal to "mock".
C6_AllThrowMockSource ==
  (/\ Returned
   /\ Len(responses) >= 1
   /\ \A i \in 1..Len(responses) : responses[i].kind = "throw") =>
    /\ ret.success
    /\ "api_source" \in DOMAIN ret.data.metadata
    /\ ret.data.metadata.api_source = "mock"

\* C7: no internal failure leaves generateItinerary as a thrown error or a
\* rejected promise; after a rejected credential, a failed final attempt or an
\* exception inside the try block the result is the mock generator's output.
C7_NoFailurePropagates ==
  /\ outcome # "threw"
  /\ pc = "done" => Returned
  /\ (Returned /\ (caught \/ KeyRejected \/ ~result.success)) =>
       ret = generateMockItinerary(tripRequest, itineraryType)

\* an exception raised before any model call, absorbed into a mock result
C7_Witness == Returned /\ caught /\ modelCalls = <<>> /\ IsMockResult(ret)

----------------------------------------------------------------------------
(* Properties of the mock generator                                        *)

\* C8: generateMockItinerary returns, for every trip request and type filter,
\* at least one itinerary, each with at least one day, each day with a day
\* index, a date and a non-empty list of activities.
C8_MockWellFormed ==
  (Returned /\ IsMockResult(ret)) =>
    /\ Len(ret.data.itineraries) >= 1
    /\ \A i \in 1..Len(ret.data.itineraries) :
         LET days == ret.data.itineraries[i].days
         IN  /\ Len(days) >= 1
             /\ \A j \in 1..Len(days) :
                  /\ {"day", "date", "activities"} \subseteq DOMAIN days[j]
                  /\ days[j].day \in 1..Len(days)
                  /\ days[j].date >= 0
                  /\ Len(days[j].activities) >= 1

\* a filter outside the three types, no themes, end_date before start_date
C8_Witness ==
  /\ Returned
  /\ IsMockResult(ret)
  /\ itineraryType = "Budget"
  /\ tripRequest.preferred_themes = <<>>
  /\ getTime(tripRequest.end_date) < getTime(tripRequest.start_date)

\* the multiplier of an itinerary type, in tenths
MultiplierTenths(type) ==
  CASE type = "budget" -> 7
    [] type = "balanced" -> 9
    [] type = "premium" -> 12

\* C9: the total cost of a mock itinerary is exactly floor(budget_total * 0.7)
\* for budget, floor(budget_total * 0.9) for balanced and
\* floor(budget_total * 1.2) for premium, whatever the dates, the traveler
\* count and the themes.
C9_MockTotalCost ==
  (Returned /\ IsMockResult(ret)) =>
    \A i \in 1..Len(ret.data.itineraries) :
      LET it == ret.data.itineraries[i]
          m == MultiplierTenths(it.type)
      IN  /\ 10 * it.total_cost <= m * tripRequest.budget_total
          /\ m * tripRequest.budget_total < 10 * (it.total_cost + 1)

\* C10: every mock itinerary has exactly
\* max(1, ceil((end_date - start_date) / 1 day)) days.
C10_DayCountSigned ==
  (Returned /\ IsMockResult(ret)) =>
    \A i \in 1..Len(ret.data.itineraries) :
      Len(ret.data.itineraries[i].days) =
        Max(1, CeilDiv(getTime(tripRequest.end_date) - getTime(tripRequest.start_date),
                       MsPerDay))

\* C10 (amended): every mock itinerary has exactly
\* max(1, ceil(|end_date - start_date| / 1 day)) days: the least n >= 1 with
\* |end_date - start_date| <= n days.
C10_DayCountAbsolute ==
  (Returned /\ IsMockResult(ret)) =>
    \A i \in 1..Len(ret.data.itineraries) :
      LET n == Len(ret.data.itineraries[i].days)
          diff == Abs(getTime(tripRequest.end_date) - getTime(tripRequest.start_date))
      IN  /\ n >= 1
          /\ diff <= n * MsPerDay
          /\ n > 1 => diff > (n - 1) * MsPerDay

\* a mock result for an end_date more than a day before the start_date
C10_Witness ==
  /\ Returned
  /\ IsMockResult(ret)
  /\ getTime(tripRequest.start_date) - getTime(tripRequest.end_date) > MsPerDay

\* C11: the duration of the mock generator is the number of whole days
\* between start_date and end_date counted inclusively (start day and end day
\* both counted), at least 1, and the per-day budget is budget_total divided
\* by that duration.
C11_DurationInclusive ==
  (Returned /\ IsMockResult(ret)) =>
    \A i \in 1..Len(ret.data.itineraries) :
      Len(ret.data.itineraries[i].days) =
        Max(1, (Abs(getTime(tripRequest.end_date) - getTime(tripRequest.start_date))
                  \div MsPerDay) + 1)

\* C11 (amended): the duration is the number of days from start_date to
\* end_date with the end day not counted, max(1, ceil(|end - start| / 1 day)),
\* and the per-day budget is floor(budget_total / duration): the daily cost of
\* a balanced (premium) day is the floor of 0.9 (1.2) times that quotient.
C11_DurationExclusive ==
  (Returned /\ IsMockResult(ret)) =>
    \A i \in 1..Len(ret.data.itineraries) :
      LET it == ret.data.itineraries[i]
          n == Len(it.days)
          diff == Abs(getTime(tripRequest.end_date) - getTime(tripRequest.start_date))
          b == tripRequest.budget_total
          m == MultiplierTenths(it.type)
      IN  /\ n = Max(1, CeilDiv(diff, MsPerDay))
          /\ it.type \in {"balanced", "premium"} =>
               \A j \in 1..n :
                 \E q \in 0..b :
                   /\ n * q <= b
                   /\ b < n * (q + 1)
                   /\ 10 * it.days[j].daily_cost <= m * q
                   /\ m * q < 10 * (it.days[j].daily_cost + 1)

\* a mock result for two date-only strings one calendar day apart and a
\* budget that does not divide evenly
C11_Witness ==
  /\ Returned
  /\ IsMockResult(ret)
  /\ tripRequest.start_date.h = 0
  /\ tripRequest.end_date.h = 0
  /\ tripRequest.end_date.d = tripRequest.start_date.d + 2
  /\ tripRequest.budget_total = 9

\* C12: without a type filter the mock generator returns exactly three
\* itineraries, one each of budget, balanced and premium; with a filter that
\* is one of these three it returns exactly one itinerary, of that type.
C12_MockSelection ==
  (Returned /\ IsMockResult(ret)) =>
    /\ itineraryType = Undefined =>
         /\ Len(ret.data.itineraries) = 3
         /\ TypesOf(ret.data.itineraries) = ItineraryTypes
    /\ itineraryType \in ItineraryTypes =>
         /\ Len(ret.data.itineraries) = 1
         /\ ret.data.itineraries[1].type = itineraryType

\* a mock result for the filter premium
C12_Witness ==
  /\ Returned
  /\ IsMockResult(ret)
  /\ itineraryType = "premium"
  /\ Len(ret.data.itineraries) = 1

----------------------------------------------------------------------------
(* Properties of the confidence score and of the failure kinds             *)

\* C13: when the AI path succeeds, the returned confidence_score is the
\* value the model supplied whenever it supplied one (0 included), and 0.85
\* only when it supplied none.
C13_ConfidencePreserved ==
  (Returned /\ ~caught /\ result.success) =>
    ret.data.metadata.confidence_score =
      (IF result.data.confidence_score # NoConfidence
       THEN result.data.confidence_score
       ELSE 85)

\* C14: every result of the mock generator, on whichever fallback path it was
\* produced, has confidence_score 0.75 and a source tag with the value "mock".
C14_MockConfidenceAndSource ==
  (Returned /\ IsMockResult(ret)) =>
    /\ ret.data.metadata.confidence_score = 75
    /\ "api_source" \in DOMAIN ret.data.metadata
    /\ ret.data.metadata.api_source = "mock"

\* the response is text in which no JSON is found: the direct parse fails,
\* there is no fenced block and no brace-delimited substring
NoJson(r) == r.kind = "text" /\ r.layout = "prose"

C16_SchemaFailureKind ==
  /\ (pc = "after1" /\ SchemaRejected(responses[1])) =>
       result = [success |-> FALSE, error |-> "schema_validation_failed",
                 details |-> validateItinerarySchema(responses[1].payload).errors]
  /\ (Len(responses) = 2 /\ SchemaRejected(responses[2])) =>
       result = [success |-> FALSE, error |-> "schema_validation_failed",
                 details |-> validateItinerarySchema(responses[2].payload).errors]
  /\ pc = "await2" =>
       /\ ~result.success
       /\ result.error = "schema_validation_failed"
       /\ result.details # <<>>
  /\ Len(modelCalls) = 2 => SchemaRejected(responses[1])
  /\ (pc = "after1" /\ ~result.success /\ ~SchemaRejected(responses[1])) =>
       result.error # "schema_validation_failed"

\* the retry is in flight after the first response had incomplete itineraries
C16_Witness ==
  /\ pc = "await2"
  /\ result.error = "schema_validation_failed"
  /\ result.details = <<"itineraries[].required">>

\* the cost components of one mock day
ComponentSum(d) ==
  d.activities[1].cost + d.activities[2].cost + d.accommodation.cost
  + d.meals[1].cost + d.meals[2].cost + d.meals[3].cost + d.transportation.cost

\* C17: in every day of every mock itinerary the costs of the two
\* activities, the accommodation, the three meals and the transportation sum
\* to at most the day's daily_cost.
C17_ComponentsWithinDailyCost ==
  (Returned /\ IsMockResult(ret)) =>
    \A i \in 1..Len(ret.data.itineraries) :
      \A j \in 1..Len(ret.data.itineraries[i].days) :
        ComponentSum(ret.data.itineraries[i].days[j])
          <= ret.data.itineraries[i].days[j].daily_cost

----------------------------------------------------------------------------
(* Frame of generateItinerary                                              *)

\* C19: no step of generateItinerary or of its helpers changes the trip store
\* or the itinerary store, and from the call to the return the TripRequest
\* argument keeps its value.
C19_OrchestratorFrame ==
  [][/\ mockTrips' = mockTrips
     /\ mockItineraries' = mockItineraries
     /\ (pc # "idle" /\ pc' # "idle") =>
          /\ tripRequest' = tripRequest
          /\ itineraryType' = itineraryType]_vars

\* an AI result was returned while the trip store held a trip
C19_Witness ==
  /\ Returned
  /\ ~IsMockResult(ret)
  /\ DOMAIN mockTrips # {}
  /\ tripRequest # NullRequest

----------------------------------------------------------------------------
(* The route handlers                                                      *)

\* the number of requests the routes receive
MaxRequests == 3

\* A route module is evaluated when its first request arrives.  The trips
\* route creates the Map and registers it on globalThis; the two other
\* modules take globalThis.mockTrips when it is there and a Map of their own,
\* registered nowhere, when it is not.
load(module) ==
  IF binding[module] # "unloaded"
  THEN binding
  ELSE [binding EXCEPT ![module] =
          IF module = "trips" \/ binding["trips"] = "global"
          THEN "global"
          ELSE "private"]

\* the Map a module's const mockTrips is bound to; nothing writes to a Map
\* that is not registered
tripsOf(module, bound) == IF bound[module] = "global" THEN mockTrips ELSE EmptyMap

\* the request bodies posted to /api/v1/trips
TripBodies ==
  {tr \in TripRequests :
     /\ tr.start_date = [d |-> 0, h |-> 0]
     /\ tr.end_date = [d |-> 1, h |-> 0]
     /\ tr.budget_total \in {0, 90}
     /\ tr.preferred_themes # <<>>
     /\ tr.num_travelers = 2}

\* validateTripRequest of lib/validation: non-positive budget, end date
\* before start date and non-positive traveler count are rejected
validateTripRequest(body) ==
  LET errors ==
        (IF body.budget_total <= 0 THEN <<"budget_total">> ELSE <<>>)
        \o (IF getTime(body.end_date) < getTime(body.start_date)
            THEN <<"end_date">> ELSE <<>>)
        \o (IF body.num_travelers <= 0 THEN <<"num_travelers">> ELSE <<>>)
  IN  [success |-> errors = <<>>, errors |-> errors, data |-> body]

\* a trip id no creation has issued, and the empty id
UnknownTripId == <<"trip", 0, 0>>
EmptyId == <<>>

\* the ids and types clients ask for
RequestedTripIds == DOMAIN mockTrips \cup {UnknownTripId, EmptyId}
RequestedTypes == {"budget", "Budget", "deluxe", ""}

\* the parameters of the requests to the typed-itinerary route: every type
\* for the trips that exist, one type for the ids that do not
TypedParams ==
  {<<tripId, type>> : tripId \in DOMAIN mockTrips, type \in RequestedTypes}
  \cup {<<UnknownTripId, "budget">>, <<EmptyId, "budget">>}

\* itineraryType.toLowerCase()
toLowerCase(type) == IF type = "Budget" THEN "budget" ELSE type

\* const validTypes = ['budget', 'balanced', 'premium']
validTypes == {"budget", "balanced", "premium"}

\* const itineraryId = `${tripId}_${itineraryType}`
itineraryId(tripId, type) == <<tripId, "_", type>>

NoResponse == [status |-> 0, body |-> [error |-> "<pending>"]]
NoTrip == newTripData(EmptyId, NullRequest, 0)

\* a request as it arrives; serial records whether every earlier request had
\* been answered by then
newRequest(route, method, tripId, type) ==
  [route |-> route, method |-> method, tripId |-> tripId, itineraryType |-> type,
   at |-> "params", trip |-> NoTrip, response |-> NoResponse,
   serial |-> \A rid \in 1..Len(requests) : requests[rid].at = "done"]

\* return NextResponse.json(body, { status })
respond(rid, status, body) ==
  [requests EXCEPT ![rid].at = "done",
                   ![rid].response = [status |-> status, body |-> body]]

\* the arriving request is answered at once
answered(request, status, body) ==
  Append(requests, [request EXCEPT !.at = "done",
                                   !.response = [status |-> status, body |-> body]])

CreateTrip_storeUnvalidated ==
  /\ Len(requests) < MaxRequests
  /\ \E body \in TripBodies, now \in {clock, clock + 1} :
       LET rid == Len(requests) + 1
           request == newRequest("trips", "POST", EmptyId, "")
           validationResult == validateTripRequest(body)
           tripId == newTripId(now, rid)
           tripData == newTripData(tripId, validationResult.data, now)
       IN  /\ clock' = now
           /\ binding' = load("trips")
           /\ mockTrips' = mapSet(mockTrips, tripId, tripData)
           /\ IF ~validationResult.success
              THEN requests' = answered(request, 400,
                                 [error |-> "Invalid request data",
                                  details |-> validationResult.errors])
              ELSE requests' = answered(request, 200,
                                 [id |-> tripId, status |-> "success",
                                  message |-> "Trip created successfully"])
  /\ UNCHANGED mockItineraries
  /\ UNCHANGED <<privateItineraries, cards>>
  /\ UNCHANGED orchestratorVars

\* POST /api/v1/trips
CreateTrip ==
  /\ Len(requests) < MaxRequests
  /\ \E body \in TripBodies, now \in {clock, clock + 1} :
       LET rid == Len(requests) + 1
           request == newRequest("trips", "POST", EmptyId, "")
           validationResult == validateTripRequest(body)
           tripId == newTripId(now, rid)
           tripData == newTripData(tripId, validationResult.data, now)
       IN  /\ clock' = now
           /\ binding' = load("trips")
           /\ IF ~validationResult.success
              THEN /\ requests' = answered(request, 400,
                                    [error |-> "Invalid request data",
                                     details |-> validationResult.errors])
                   /\ UNCHANGED mockTrips
              ELSE /\ mockTrips' = mapSet(mockTrips, tripId, tripData)
                   /\ requests' = answered(request, 200,
                                    [id |-> tripId, status |-> "success",
                                     message |-> "Trip created successfully"])
  /\ UNCHANGED mockItineraries
  /\ UNCHANGED <<privateItineraries, cards>>
  /\ UNCHANGED orchestratorVars

\* what a trip GET answers from the Map its module is bound to
tripAnswer(request, trips) ==
  IF request.tripId = EmptyId
  THEN answered(request, 400, [error |-> "Trip ID is required"])
  ELSE IF request.tripId \notin DOMAIN trips
  THEN answered(request, 404, [error |-> "Trip not found"])
  ELSE answered(request, 200, trips[request.tripId])

\* GET /api/v1/trips?id=
GetTripByQuery ==
  /\ Len(requests) < MaxRequests
  /\ \E id \in RequestedTripIds :
       /\ binding' = load("trips")
       /\ requests' = tripAnswer(newRequest("trips", "GET", id, ""),
                                 tripsOf("trips", binding'))
  /\ UNCHANGED <<mockTrips, mockItineraries, clock>>
  /\ UNCHANGED <<privateItineraries, cards>>
  /\ UNCHANGED orchestratorVars

\* GET /api/v1/trips/[tripId]
GetTripById ==
  /\ Len(requests) < MaxRequests
  /\ \E tripId \in RequestedTripIds :
       /\ binding' = load("tripById")
       /\ requests' = tripAnswer(newRequest("tripById", "GET", tripId, ""),
                                 tripsOf("tripById", binding'))
  /\ UNCHANGED <<mockTrips, mockItineraries, clock>>
  /\ UNCHANGED <<privateItineraries, cards>>
  /\ UNCHANGED orchestratorVars

\* GET /api/v1/trips/[tripId]/itineraries/[itineraryType] arrives and waits
\* for its params
GetItineraryArrives ==
  /\ Len(requests) < MaxRequests
  /\ \E params \in TypedParams :
       requests' = Append(requests, newRequest("typedItinerary", "GET", params[1], params[2]))
  /\ binding' = load("typedItinerary")
  /\ UNCHANGED <<mockTrips, mockItineraries, clock>>
  /\ UNCHANGED <<privateItineraries, cards>>
  /\ UNCHANGED orchestratorVars

PostRegenerate_marksKey ==
  /\ Len(requests) < MaxRequests
  /\ \E params \in TypedParams :
       /\ mockItineraries' = mapSet(mockItineraries, itineraryId(params[1], params[2]),
                                    [status |-> "regenerating"])
       /\ requests' = Append(requests, newRequest("typedItinerary", "POST", params[1], params[2]))
  /\ binding' = load("typedItinerary")
  /\ UNCHANGED <<mockTrips, clock>>
  /\ UNCHANGED <<privateItineraries, cards>>
  /\ UNCHANGED orchestratorVars

\* POST /api/v1/trips/[tripId]/itineraries/[itineraryType]: the stored
\* itinerary is deleted and GET is called, which waits for its params
PostRegenerate ==
  /\ Len(requests) < MaxRequests
  /\ \E params \in TypedParams :
       /\ mockItineraries' = mapDelete(mockItineraries, itineraryId(params[1], params[2]))
       /\ requests' = Append(requests, newRequest("typedItinerary", "POST", params[1], params[2]))
  /\ binding' = load("typedItinerary")
  /\ UNCHANGED <<mockTrips, clock>>
  /\ UNCHANGED <<privateItineraries, cards>>
  /\ UNCHANGED orchestratorVars

GetItineraryLookup_novalidation(rid) ==
  LET request == requests[rid]
      id == itineraryId(request.tripId, request.itineraryType)
      trips == tripsOf("typedItinerary", binding)
  IN  /\ request.route = "typedItinerary"
      /\ request.at = "params"
      /\ requests' =
           IF id \in DOMAIN mockItineraries
           THEN respond(rid, 200, mockItineraries[id])
           ELSE IF request.tripId \notin DOMAIN trips
           THEN respond(rid, 404, [error |-> "Trip not found"])
           ELSE [requests EXCEPT ![rid].at = "generating",
                                 ![rid].trip = trips[request.tripId]]
      /\ UNCHANGED <<mockTrips, mockItineraries, binding, clock>>
      /\ UNCHANGED <<privateItineraries, cards>>
      /\ UNCHANGED orchestratorVars

GetItineraryLookup_nocache(rid) ==
  LET request == requests[rid]
      id == itineraryId(request.tripId, request.itineraryType)
      trips == tripsOf("typedItinerary", binding)
  IN  /\ request.route = "typedItinerary"
      /\ request.at = "params"
      /\ requests' =
           IF request.tripId = EmptyId \/ request.itineraryType = ""
           THEN respond(rid, 400, [error |-> "Trip ID and itinerary type are required"])
           ELSE IF toLowerCase(request.itineraryType) \notin validTypes
           THEN respond(rid, 400, [error |-> "Invalid itinerary type"])
           ELSE IF request.tripId \notin DOMAIN trips
           THEN respond(rid, 404, [error |-> "Trip not found"])
           ELSE [requests EXCEPT ![rid].at = "generating",
                                 ![rid].trip = trips[request.tripId]]
      /\ UNCHANGED <<mockTrips, mockItineraries, binding, clock>>
      /\ UNCHANGED <<privateItineraries, cards>>
      /\ UNCHANGED orchestratorVars

\* GET of the typed itinerary from its params up to the call of
\* generateItinerary
GetItineraryLookup(rid) ==
  LET request == requests[rid]
      id == itineraryId(request.tripId, request.itineraryType)
      trips == tripsOf("typedItinerary", binding)
  IN  /\ request.route = "typedItinerary"
      /\ request.at = "params"
      /\ requests' =
           IF request.tripId = EmptyId \/ request.itineraryType = ""
           THEN respond(rid, 400, [error |-> "Trip ID and itinerary type are required"])
           ELSE IF toLowerCase(request.itineraryType) \notin validTypes
           THEN respond(rid, 400, [error |-> "Invalid itinerary type"])
           ELSE IF id \in DOMAIN mockItineraries
           THEN respond(rid, 200, mockItineraries[id])
           ELSE IF request.tripId \notin DOMAIN trips
           THEN respond(rid, 404, [error |-> "Trip not found"])
           ELSE [requests EXCEPT ![rid].at = "generating",
                                 ![rid].trip = trips[request.tripId]]
      /\ UNCHANGED <<mockTrips, mockItineraries, binding, clock>>
      /\ UNCHANGED <<privateItineraries, cards>>
      /\ UNCHANGED orchestratorVars

\* the model output the route model lets the AI path return
RoutePayloads ==
  {p \in Payloads :
     /\ p.hasItineraries
     /\ p.itineraries = << [type |-> "budget", complete |-> TRUE] >>
     /\ p.confidence_score = 90}

\* what generateItinerary(tripRequest, itineraryType) can resolve with: the
\* mock generator's result on every fallback, the model's data with the
\* orchestrator's metadata when the key is accepted
generateItineraryResults(request, type) ==
  {generateMockItinerary(request, type)}
  \cup (IF hasValidKey(apiKey)
        THEN {[success |-> TRUE, data |-> itineraryWithMetadata(p)] : p \in RoutePayloads}
        ELSE {})

\* GET of the typed itinerary from the return of generateItinerary on
GetItineraryStore(rid) ==
  LET request == requests[rid]
      id == itineraryId(request.tripId, request.itineraryType)
  IN  /\ request.at = "generating"
      /\ \E generationResult \in generateItineraryResults(request.trip.tripRequest,
                                                          request.itineraryType),
            now \in {clock, clock + 1} :
           LET itineraryData ==
                 [id |-> id,
                  tripId |-> request.tripId,
                  type |-> request.itineraryType,
                  itineraries |-> generationResult.data.itineraries,
                  metadata |-> generationResult.data.metadata,
                  tripRequest |-> request.trip.tripRequest,
                  createdAt |-> now]
           IN  /\ clock' = now
               /\ IF ~generationResult.success
                  THEN /\ requests' = respond(rid, 500, [error |-> "Failed to generate itinerary"])
                       /\ UNCHANGED mockItineraries
                  ELSE /\ mockItineraries' = mapSet(mockItineraries, id, itineraryData)
                       /\ requests' = respond(rid, 200, itineraryData)
      /\ UNCHANGED <<mockTrips, binding>>
      /\ UNCHANGED <<privateItineraries, cards>>
      /\ UNCHANGED orchestratorVars

RouteInit ==
  /\ timeZone = UtcZone
  /\ apiKey = [set |-> TRUE, value |-> <<"A", "I", "z", "a", "S", "y">>]
  /\ Idle
  /\ RouteFresh

RouteNext ==
  \/ CreateTrip
  \/ GetTripByQuery
  \/ GetTripById
  \/ GetItineraryArrives
  \/ PostRegenerate
  \/ \E rid \in 1..Len(requests) : GetItineraryLookup(rid)
  \/ \E rid \in 1..Len(requests) : GetItineraryStore(rid)

RouteSpec == RouteInit /\ [][RouteNext]_vars

----------------------------------------------------------------------------
(* Properties of the route handlers                                        *)

\* the step is taken by a regeneration POST for the key: the POST arrives, or
\* the GET it called moves on
StepOfPostFor(key) ==
  \E rid \in 1..Len(requests') :
    /\ requests'[rid].route = "typedItinerary"
    /\ requests'[rid].method = "POST"
    /\ itineraryId(requests'[rid].tripId, requests'[rid].itineraryType) = key
    /\ (rid > Len(requests) \/ requests'[rid] # requests[rid])

\* C18: once an itinerary is stored under a key, the stored value is replaced
\* or removed only by a step of a regeneration POST for that key, whatever
\* the interleaving of the requests, GETs for the same key that are in
\* flight together included.
C18_StoredChangesOnlyByPost ==
  [][\A key \in DOMAIN mockItineraries :
       (key \notin DOMAIN mockItineraries' \/ mockItineraries'[key] # mockItineraries[key])
         => StepOfPostFor(key)]_vars

\* every answered trip GET for the id of a stored trip returned that trip
TripGetsReturnStored ==
  \A rid \in 1..Len(requests) :
    LET request == requests[rid]
    IN  (/\ request.method = "GET"
         /\ request.route \in {"trips", "tripById"}
         /\ request.tripId \in DOMAIN mockTrips) =>
          /\ request.response.status = 200
          /\ request.response.body = mockTrips[request.tripId]
          /\ request.response.body.id = request.tripId
          /\ request.response.body.status = "created"

\* C20: a trip stored by the creation POST is never changed or removed, and
\* after any sequence of trip GETs, itinerary GETs and regeneration POSTs a
\* GET for its id returns the id, tripRequest, createdAt and status stored at
\* creation.
C20_TripNeverMutated ==
  /\ []TripGetsReturnStored
  /\ [][\A tripId \in DOMAIN mockTrips :
          /\ tripId \in DOMAIN mockTrips'
          /\ mockTrips'[tripId] = mockTrips[tripId]]_vars

\* the request is a GET of the typed-itinerary route for the key
IsGetFor(request, key) ==
  /\ request.route = "typedItinerary"
  /\ request.method = "GET"
  /\ itineraryId(request.tripId, request.itineraryType) = key

\* the request called generateItinerary: const trip was assigned
CalledGenerate(request) == request.trip # NoTrip

\* GETs i < j for one key, each request from i to j received after all the
\* earlier ones were answered, no regeneration POST for the key between them
\* (a later POST counts as between them unless it was received after every
\* earlier request was answered)
ConsecutiveGets(i, j, key) ==
  /\ i < j
  /\ IsGetFor(requests[i], key)
  /\ IsGetFor(requests[j], key)
  /\ \A rid \in i..j :
       /\ requests[rid].serial
       /\ ~(requests[rid].method = "POST"
            /\ itineraryId(requests[rid].tripId, requests[rid].itineraryType) = key)
  /\ \A rid \in (j + 1)..Len(requests) :
       (/\ requests[rid].method = "POST"
        /\ itineraryId(requests[rid].tripId, requests[rid].itineraryType) = key) =>
         requests[rid].serial

\* a GET that finds its key stored answers with the stored value and does
\* not call generateItinerary
StoredIsReturned ==
  \A rid \in 1..Len(requests) :
    LET key == itineraryId(requests[rid].tripId, requests[rid].itineraryType)
    IN  (/\ requests[rid].route = "typedItinerary"
         /\ requests[rid].at = "params"
         /\ requests'[rid] # requests[rid]
         /\ key \in DOMAIN mockItineraries) =>
          /\ requests'[rid].at = "done"
          /\ requests'[rid].response = [status |-> 200, body |-> mockItineraries[key]]
          /\ ~CalledGenerate(requests'[rid])
          /\ mockItineraries' = mockItineraries

\* consecutive GETs for one key return the same itinerary and at most one of
\* them calls generateItinerary
ConsecutiveGetsAgree ==
  \A i \in 1..Len(requests), j \in 1..Len(requests) :
    \A key \in DOMAIN mockItineraries :
      (/\ ConsecutiveGets(i, j, key)
       /\ requests[i].response.status = 200
       /\ requests[j].at = "done") =>
        /\ requests[j].response = requests[i].response
        /\ ~CalledGenerate(requests[j])

\* C21: a GET for a key whose itinerary is stored returns the stored value
\* without calling generateItinerary, and consecutive GETs for one key with no
\* POST between them return the same itinerary and generate at most once.
C21_CacheHit ==
  /\ []ConsecutiveGetsAgree
  /\ [][StoredIsReturned]_vars

\* a second GET, received after the first was answered, returned the first's
\* itinerary without generating
C21_Witness ==
  \E i \in 1..Len(requests), j \in 1..Len(requests) :
    /\ ConsecutiveGets(i, j, itineraryId(requests[i].tripId, requests[i].itineraryType))
    /\ CalledGenerate(requests[i])
    /\ requests[i].response.status = 200
    /\ requests[j].at = "done"
    /\ requests[j].response = requests[i].response
    /\ ~CalledGenerate(requests[j])

----------------------------------------------------------------------------
(* Termination of generateItinerary                                        *)

\* C22: when every model call settles, every invocation of generateItinerary
\* returns a result, and it makes at most two model calls on the way.
C22_EventuallyReturns ==
  /\ (pc # "idle") ~> Returned
  /\ [](Len(modelCalls) <= 2)

\* an invocation that returned the mock result after both model calls were
\* rejected
C22_Witness ==
  /\ Returned
  /\ Len(modelCalls) = 2
  /\ responses[2].kind = "throw"
  /\ IsMockResult(ret)

----------------------------------------------------------------------------
(* Days of a mock itinerary                                                *)

\* C23: in every mock itinerary the days carry the indices 1, 2, ..., n in
\* order, n being the duration, and the date of day i is the calendar day of
\* start_date plus i - 1 days.
C23_DaysIndexedAndDated ==
  (Returned /\ IsMockResult(ret)) =>
    \A k \in 1..Len(ret.data.itineraries) :
      LET days == ret.data.itineraries[k].days
      IN  /\ Len(days) = calculateDuration(tripRequest.start_date, tripRequest.end_date)
          /\ \A i \in 1..Len(days) :
               /\ days[i].day = i
               /\ days[i].date = isoDay(getTime(tripRequest.start_date)) + (i - 1)

----------------------------------------------------------------------------
(* Responses of the typed-itinerary route                                  *)

\* the request was answered with an itinerary the mock generator built
AnsweredWithMock(request) ==
  /\ request.route = "typedItinerary"
  /\ request.at = "done"
  /\ request.response.status = 200
  /\ request.response.body.metadata.model_version = "mock-generator-v1"

\* C24: when the typed-itinerary GET accepts its itineraryType and the mock
\* generator builds the result, every itinerary of the response has the
\* requested type, whatever the case the parameter is written in.
C24_MockTypeIsRequested ==
  \A rid \in 1..Len(requests) :
    AnsweredWithMock(requests[rid]) =>
      /\ Len(requests[rid].response.body.itineraries) >= 1
      /\ TypesOf(requests[rid].response.body.itineraries)
           = {toLowerCase(requests[rid].itineraryType)}

\* the parameters pass the checks of the typed-itinerary GET
ParamsAccepted(request) ==
  /\ request.tripId # EmptyId
  /\ request.itineraryType # ""
  /\ toLowerCase(request.itineraryType) \in validTypes

\* the error responses of the typed-itinerary GET: 400 for parameters that
\* are missing or not a type, 404 for an unknown trip id, none of them after
\* a call of generateItinerary
ErrorResponsesClassified ==
  \A rid \in 1..Len(requests) :
    LET request == requests[rid]
    IN  (request.route = "typedItinerary" /\ request.at = "done") =>
          /\ request.response.status \in {200, 400, 404}
          /\ request.response.status # 200 => ~CalledGenerate(request)
          /\ ~ParamsAccepted(request) => request.response.status = 400
          /\ (ParamsAccepted(request) /\ request.tripId \notin DOMAIN mockTrips) =>
               request.response.status = 404
          /\ request.response.status = 404 => ParamsAccepted(request)

\* the step in which an error response is returned changes neither store
ErrorResponsesKeepStores ==
  \A rid \in 1..Len(requests) :
    (/\ requests[rid].route = "typedItinerary"
     /\ requests[rid].at # "done"
     /\ requests'[rid].at = "done"
     /\ requests'[rid].response.status # 200) =>
      /\ mockTrips' = mockTrips
      /\ mockItineraries' = mockItineraries

\* C25: every error response of the typed-itinerary GET is produced without
\* calling generateItinerary and leaves both stores as they were: 400 when a
\* parameter is missing or the type is not budget, balanced or premium, 404
\* when nothing is cached and the trip id is unknown.
C25_ErrorResponses ==
  /\ []ErrorResponsesClassified
  /\ [][ErrorResponsesKeepStores]_vars

\* 404 for an unknown trip id and 400 for an invalid type, while a trip and
\* an itinerary are stored
C25_Witness ==
  /\ DOMAIN mockTrips # {}
  /\ \E rid \in 1..Len(requests) :
       /\ requests[rid].route = "typedItinerary"
       /\ requests[rid].method = "GET"
       /\ requests[rid].tripId = UnknownTripId
       /\ requests[rid].response.status = 404
  /\ \E rid \in 1..Len(requests) :
       /\ requests[rid].route = "typedItinerary"
       /\ requests[rid].itineraryType = "deluxe"
       /\ requests[rid].response.status = 400

----------------------------------------------------------------------------
(* Trip creation                                                           *)

\* what the step that answers a trip-creation POST does to the stores
CreationStep ==
  LET request == requests'[Len(requests')]
      body == request.response.body
  IN  (/\ Len(requests') = Len(requests) + 1
       /\ request.route = "trips"
       /\ request.method = "POST") =>
        /\ request.at = "done"
        /\ ~CalledGenerate(request)
        /\ mockItineraries' = mockItineraries
        /\ request.response.status \in {200, 400}
        /\ request.response.status = 400 =>
             /\ mockTrips' = mockTrips
             /\ \E rejected \in TripBodies :
                  /\ ~validateTripRequest(rejected).success
                  /\ body.details = validateTripRequest(rejected).errors
        /\ request.response.status = 200 =>
             /\ body.id \notin DOMAIN mockTrips
             /\ DOMAIN mockTrips' = DOMAIN mockTrips \cup {body.id}
             /\ \A tripId \in DOMAIN mockTrips : mockTrips'[tripId] = mockTrips[tripId]
             /\ mockTrips'[body.id].id = body.id
             /\ mockTrips'[body.id].status = "created"
             /\ validateTripRequest(mockTrips'[body.id].tripRequest).success

\* every stored trip holds a request the validator accepted
StoredTripsValid ==
  \A tripId \in DOMAIN mockTrips :
    validateTripRequest(mockTrips[tripId].tripRequest).success

\* C26: a creation request that fails validation is answered 400 with the
\* validator's errors and stores nothing; one that passes adds exactly one
\* trip; neither generates an itinerary or changes the itinerary store.
C26_CreationStoresValidTrips ==
  /\ []StoredTripsValid
  /\ [][CreationStep]_vars

\* one creation was refused and one stored a trip, with an itinerary stored
\* in between
C26_Witness ==
  /\ Cardinality(DOMAIN mockTrips) = 1
  /\ DOMAIN mockItineraries # {}
  /\ \E rid \in 1..Len(requests) :
       /\ requests[rid].route = "trips"
       /\ requests[rid].method = "POST"
       /\ requests[rid].response.status = 400

----------------------------------------------------------------------------
(* Keys of the typed-itinerary store                                       *)

\* C27: every key of the typed-itinerary store is tripId_itineraryType for
\* the id of a stored trip and a type that, lowercased, is budget, balanced
\* or premium, after any sequence of creations, GETs and regeneration POSTs,
\* POSTs with an invalid type or an unknown trip id included.
C27_KeysWellFormed ==
  \A key \in DOMAIN mockItineraries :
    \E tripId \in DOMAIN mockTrips, type \in RequestedTypes :
      /\ key = itineraryId(tripId, type)
      /\ toLowerCase(type) \in validTypes
      /\ mockItineraries[key].id = key
      /\ mockItineraries[key].tripId = tripId

\* an itinerary is stored and a regeneration POST with an invalid type or an
\* unknown trip id has been received
C27_Witness ==
  /\ DOMAIN mockItineraries # {}
  /\ \E rid \in 1..Len(requests) :
       /\ requests[rid].route = "typedItinerary"
       /\ requests[rid].method = "POST"
       /\ (requests[rid].itineraryType = "deluxe" \/ requests[rid].tripId = UnknownTripId)

----------------------------------------------------------------------------
(* The route /api/v1/itineraries/generate                                  *)

\* the request bodies posted to /api/v1/itineraries/generate
GenerateBodies ==
  {tr \in TripRequests :
     /\ tr.start_date = [d |-> 0, h |-> 0]
     /\ tr.end_date \in {[d |-> 0, h |-> 0], [d |-> 1, h |-> 0], [d |-> MaxDay, h |-> 0]}
     /\ tr.budget_total \in {0, 90, 2000}
     /\ tr.preferred_themes # <<>>
     /\ tr.num_travelers = 2}

\* generateMockItineraries of the route: the three variants with their
\* totalCost and their days (day and date of each day)
generateMockItineraries(request) ==
  LET startDate == getTime(request.start_date)
      endDate == getTime(request.end_date)
      days == CeilDiv(endDate - startDate, MsPerDay) + 1
      generateDays ==
        [i \in 1..days |->
          [day |-> i, date |-> isoDay(setDate(timeZone, startDate, i - 1))]]
  IN  [itineraries |->
        << [id |-> "budget",
            totalCost |-> FloorTimes07(request.budget_total),
            days |-> generateDays],
           [id |-> "balanced",
            totalCost |-> FloorTimes09(request.budget_total),
            days |-> generateDays],
           [id |-> "luxury",
            totalCost |-> FloorTimes12(request.budget_total),
            days |-> generateDays] >>]

\* POST /api/v1/itineraries/generate
GenerateItineraries ==
  /\ Len(requests) < MaxRequests
  /\ \E body \in GenerateBodies, now \in {clock, clock + 1} :
       LET rid == Len(requests) + 1
           request == newRequest("generate", "POST", EmptyId, "")
           validationResult == validateTripRequest(body)
           itineraryData == generateMockItineraries(validationResult.data)
           id == newTripId(now, rid)
       IN  /\ clock' = now
           /\ IF ~validationResult.success
              THEN /\ requests' = answered(request, 400,
                                    [error |-> "Invalid request data",
                                     details |-> validationResult.errors])
                   /\ UNCHANGED privateItineraries
              ELSE /\ privateItineraries' =
                        mapSet(privateItineraries, id,
                               [id |-> id,
                                itineraries |-> itineraryData.itineraries,
                                tripRequest |-> validationResult.data,
                                createdAt |-> now])
                   /\ requests' = answered(request, 200,
                                    [id |-> id, status |-> "success",
                                     message |-> "Itinerary generated successfully",
                                     confidence_score |-> 95])
  /\ UNCHANGED <<mockTrips, mockItineraries, binding, cards>>
  /\ UNCHANGED orchestratorVars

\* the ids clients ask the generate route for: ids either route has issued,
\* an id nobody issued, no id
RequestedItineraryIds ==
  DOMAIN privateItineraries \cup DOMAIN mockTrips \cup {UnknownTripId, EmptyId}

GetGeneratedItinerary_shared ==
  /\ Len(requests) < MaxRequests
  /\ \E id \in RequestedItineraryIds :
       LET request == newRequest("generate", "GET", id, "")
       IN  requests' =
             IF id = EmptyId
             THEN answered(request, 400, [error |-> "Itinerary ID is required"])
             ELSE IF id \in DOMAIN privateItineraries
             THEN answered(request, 200, privateItineraries[id])
             ELSE IF id \in DOMAIN mockTrips
             THEN answered(request, 200, mockTrips[id])
             ELSE answered(request, 404, [error |-> "Itinerary not found"])
  /\ UNCHANGED <<mockTrips, mockItineraries, binding, clock, privateItineraries, cards>>
  /\ UNCHANGED orchestratorVars

\* GET /api/v1/itineraries/generate?id=
GetGeneratedItinerary ==
  /\ Len(requests) < MaxRequests
  /\ \E id \in RequestedItineraryIds :
       LET request == newRequest("generate", "GET", id, "")
       IN  requests' =
             IF id = EmptyId
             THEN answered(request, 400, [error |-> "Itinerary ID is required"])
             ELSE IF id \notin DOMAIN privateItineraries
             THEN answered(request, 404, [error |-> "Itinerary not found"])
             ELSE answered(request, 200, privateItineraries[id])
  /\ UNCHANGED <<mockTrips, mockItineraries, binding, clock, privateItineraries, cards>>
  /\ UNCHANGED orchestratorVars

GenerateRouteNext ==
  \/ CreateTrip
  \/ GenerateItineraries
  \/ GetGeneratedItinerary

\* the generate route beside the trip-creation route
GenerateRouteSpec == RouteInit /\ [][GenerateRouteNext]_vars

\* the id was returned by a POST to the route before request rid
IssuedBy(route, id, rid) ==
  \E earlier \in 1..(rid - 1) :
    /\ requests[earlier].route = route
    /\ requests[earlier].method = "POST"
    /\ requests[earlier].response.status = 200
    /\ requests[earlier].response.body.id = id

\* C28: the GET of the generate route answers 200 only for an id that an
\* earlier POST to the same route returned, and 404 for every id the
\* trip-creation POST issued.
C28_GenerateStorePrivate ==
  \A rid \in 1..Len(requests) :
    (requests[rid].route = "generate" /\ requests[rid].method = "GET") =>
      /\ requests[rid].response.status = 200 =>
           IssuedBy("generate", requests[rid].tripId, rid)
      /\ IssuedBy("trips", requests[rid].tripId, rid) =>
           requests[rid].response.status = 404

\* the generate route holds an itinerary and has answered 404 for the id of
\* a created trip
C28_Witness ==
  /\ DOMAIN privateItineraries # {}
  /\ \E rid \in 1..Len(requests) :
       /\ requests[rid].route = "generate"
       /\ requests[rid].method = "GET"
       /\ requests[rid].tripId \in DOMAIN mockTrips
       /\ requests[rid].response.status = 404

\* the orchestrator's type of the route's variant with the same multiplier
variantType(id) == IF id = "luxury" THEN "premium" ELSE id

\* the route's itineraries for a trip request agree with the orchestrator's
\* mock itineraries for it: same number of days, same total cost per variant
GeneratorsAgree(stored) ==
  LET mock == generateMockItinerary(stored.tripRequest, Undefined).data.itineraries
  IN  \A i \in 1..Len(stored.itineraries) :
        \E j \in 1..Len(mock) :
          /\ mock[j].type = variantType(stored.itineraries[i].id)
          /\ mock[j].total_cost = stored.itineraries[i].totalCost
          /\ Len(mock[j].days) = Len(stored.itineraries[i].days)

\* C30: for every valid trip request the generate route has served, its
\* generateMockItineraries and the orchestrator's generateMockItinerary give
\* the same number of days and the same total cost for the 0.7, 0.9 and 1.2
\* variants.
C30_GeneratorsAgree ==
  \A id \in DOMAIN privateItineraries : GeneratorsAgree(privateItineraries[id])

----------------------------------------------------------------------------
(* The option cards of ItineraryResults                                    *)

optionCards_inclusive(request) ==
  LET startDate == getTime(request.start_date)
      endDate == getTime(request.end_date)
      duration == Max(1, CeilDiv(endDate - startDate, MsPerDay)) + 1
  IN  << [itineraryType |-> "budget",
          estimatedCost |-> FloorTimes07(request.budget_total),
          duration |-> duration],
         [itineraryType |-> "balanced",
          estimatedCost |-> FloorTimes09(request.budget_total),
          duration |-> duration],
         [itineraryType |-> "premium",
          estimatedCost |-> FloorTimes12(request.budget_total),
          duration |-> duration] >>

\* the three cards the component maps typeConfig to: type, estimated cost
\* and day count of each
optionCards(request) ==
  LET startDate == getTime(request.start_date)
      endDate == getTime(request.end_date)
      duration == Max(1, CeilDiv(endDate - startDate, MsPerDay))
  IN  << [itineraryType |-> "budget",
          estimatedCost |-> FloorTimes07(request.budget_total),
          duration |-> duration],
         [itineraryType |-> "balanced",
          estimatedCost |-> FloorTimes09(request.budget_total),
          duration |-> duration],
         [itineraryType |-> "premium",
          estimatedCost |-> FloorTimes12(request.budget_total),
          duration |-> duration] >>

\* ItineraryResults renders the cards for the trip request
RenderCards ==
  /\ pc = "done"
  /\ cards = NoCards
  /\ cards' = optionCards(tripRequest)
  /\ UNCHANGED <<mockTrips, mockItineraries, binding, requests, clock, privateItineraries>>
  /\ UNCHANGED orchestratorVars

\* the page is left: the cards are unmounted and the result is dropped
CloseResults ==
  /\ pc = "done"
  /\ pc' = "idle"
  /\ tripRequest' = NullRequest
  /\ itineraryType' = Undefined
  /\ prompt' = <<>>
  /\ modelCalls' = <<>>
  /\ responses' = <<>>
  /\ inflight' = 0
  /\ result' = NoResult
  /\ caught' = FALSE
  /\ outcome' = "pending"
  /\ ret' = NoReturn
  /\ cards' = NoCards
  /\ UNCHANGED <<apiKey, timeZone>>
  /\ UNCHANGED <<mockTrips, mockItineraries, binding, requests, clock, privateItineraries>>

CardNext ==
  \/ MockGenerate
  \/ RenderCards
  \/ CloseResults

\* the mock generator beside the cards rendered for the same trip request
CardSpec == MockInit /\ [][CardNext]_vars

\* the trip request is valid: its end date is not before its start date
EndNotBeforeStart(request) ==
  getTime(request.end_date) >= getTime(request.start_date)

\* C29: for a trip request whose end date is not before its start date, the
\* card of each type shows the total cost and the number of days of the mock
\* itinerary of that type.
C29_CardsMatchMock ==
  (/\ pc = "done"
   /\ cards # NoCards
   /\ IsMockResult(ret)
   /\ EndNotBeforeStart(tripRequest)) =>
    \A i \in 1..Len(ret.data.itineraries) :
      \E c \in 1..Len(cards) :
        /\ cards[c].itineraryType = ret.data.itineraries[i].type
        /\ cards[c].estimatedCost = ret.data.itineraries[i].total_cost
        /\ cards[c].duration = Len(ret.data.itineraries[i].days)

\* cards rendered beside all three mock itineraries of a trip of several
\* days with a budget of 2000
C29_Witness ==
  /\ pc = "done"
  /\ cards # NoCards
  /\ IsMockResult(ret)
  /\ Len(ret.data.itineraries) = 3
  /\ tripRequest.budget_total = 2000
  /\ getTime(tripRequest.end_date) >= getTime(tripRequest.start_date) + 2 * MsPerDay

====
